---- MODULE Spec2Model ----
(***************************************************************************)
(* Linkable ring signatures (LSAG) over an elliptic-curve group:           *)
(* linkable_ring_signature.py modelled as a state machine.                 *)
(*                                                                         *)
(* The group is the curve y^2 = x^3 + 4 over F_7, which has prime order 3  *)
(* (secp256k1 scaled down).  A point is represented by its discrete        *)
(* logarithm to the generator: 0 is the point at infinity, 1 = G = (0,2),  *)
(* 2 = 2G = (0,5).  Digests are 2 bits wide instead of 256, so that, as    *)
(* for secp256k1, the group order is slightly below the digest range.      *)
(* The point at infinity has no coordinates (ecdsa's INFINITY is           *)
(* Point(None, None, None)), so encoding it raises an exception.           *)
(***************************************************************************)
EXTENDS Integers, Sequences, FiniteSets, TLC

VARIABLES pc, hash_func, M, y, key_idx, siging_key, H, Y, u, c, s, todo,
          trace, tamper, result, vin, prev, enc

vars == <<pc, hash_func, M, y, key_idx, siging_key, H, Y, u, c, s, todo,
          trace, tamper, result, vin, prev, enc>>

(***************************************************************************)
(* Program constants (scaled) and bounds of the model                      *)
(***************************************************************************)
\* SECP256k1.order
Order == 3
\* number of values of a keccak_256 digest read as an integer (2^256)
HashRange == 4
\* width of int.to_bytes(32, 'big')
IntBytes == 1
\* values of one byte
ByteBase == 256

\* longest key ring
MaxRing == 3
\* hash functions 0..MaxHashFunc can be passed as hash_func
MaxHashFunc == 1
\* longest list given to the encoder, and longest list nested in it
MaxList == 2

(***************************************************************************)
(* The group (ecdsa.ellipticcurve.Point)                                   *)
(***************************************************************************)
Points == 0 .. (Order - 1)
INFINITY == 0
generator == 1

\* Point.__mul__: the scalar is reduced modulo the order of the point
PointMul(P, k) == (P * (k % Order)) % Order

\* Point.__add__
PointAdd(P, Q) == (P + Q) % Order

\* Point.x(), Point.y(): affine coordinates on y^2 = x^3 + 4 over F_7; None
\* (here -1) for the point at infinity
PointX(P) == IF P = INFINITY THEN -1 ELSE 0
PointY(P) == IF P = 1 THEN 2 ELSE IF P = 2 THEN 5 ELSE -1

\* randrange(order): 1 <= k < order
RandRange == 1 .. (Order - 1)

(***************************************************************************)
(* Values handed to concat: int, str (as its bytes), Point, list           *)
(***************************************************************************)
IntV(v) == <<"int", v>>
StrV(b) == <<"str", b>>
PointV(P) == <<"point", P>>
ListV(l) == <<"list", l>>

\* the key ring y, a list of Points
KeyRing(ring) == [j \in 1 .. Len(ring) |-> PointV(ring[j])]

\* an exception raised while encoding (no byte is negative)
Error == <<-1>>

RECURSIVE Pow(_, _)
Pow(b, e) == IF e = 0 THEN 1 ELSE b * Pow(b, e - 1)

\* the values that fit in IntBytes bytes
IntLimit == Pow(ByteBase, IntBytes)

\* int.to_bytes(32, 'big'): fixed width, big endian; OverflowError when the
\* value is negative or does not fit
to_bytes(v) ==
    IF v < 0 \/ v >= IntLimit THEN Error
    ELSE [j \in 1 .. IntBytes |-> (v \div Pow(ByteBase, IntBytes - j)) % ByteBase]

\* the bytes of one element of the list given to concat; None.to_bytes
\* raises AttributeError
RECURSIVE concat(_)
Encode(v) ==
    CASE v[1] = "int" -> to_bytes(v[2])
      [] v[1] = "list" -> concat(v[2])
      [] v[1] = "point" -> IF PointX(v[2]) = -1 THEN Error
                           ELSE to_bytes(PointX(v[2])) \o to_bytes(PointY(v[2]))
      [] v[1] = "str" -> v[2]

\* functools.reduce(lambda x, y: x + y, bytes_value) from element i on
RECURSIVE reduce(_, _)
reduce(params, i) ==
    LET head == Encode(params[i]) IN
      IF head = Error THEN Error
      ELSE IF i = Len(params) THEN head
      ELSE LET rest == reduce(params, i + 1) IN
             IF rest = Error THEN Error ELSE head \o rest

\* concat with a plausible hardening: a list's bytes follow its length
concat_framed(params) ==
    IF Len(params) = 0 THEN Error
    ELSE LET bytes == reduce(params, 1) IN
           IF bytes = Error THEN Error ELSE <<Len(params)>> \o bytes

\* concat(params): the bytes of the elements, in order; reduce() of an empty
\* list raises TypeError
concat(params) ==
    IF Len(params) = 0 THEN Error ELSE reduce(params, 1)

(***************************************************************************)
(* Hash oracles                                                            *)
(***************************************************************************)
\* hash_func(bytes).hexdigest() read as an integer: one function of a family
\* indexed by hf, absorbing the bytes one at a time; the digest is not
\* reduced modulo the group order
RECURSIVE Absorb(_, _, _, _)
Absorb(hf, bytes, i, h) ==
    IF i > Len(bytes) THEN h
    ELSE Absorb(hf, bytes, i + 1, (h * (29 + 2 * hf) + bytes[i] + 1) % 251)

Digest(hf, bytes) == Absorb(hf, bytes, 1, 7 + hf) % HashRange

\* H1(msg, hash_func); -1 stands for the exception concat raised
H1(msg, hf) ==
    LET bytes == concat(msg) IN IF bytes = Error THEN -1 ELSE Digest(hf, bytes)

\* map_to_curve(x)
map_to_curve(x) == PointMul(generator, x)

\* H2(msg, hash_func); -1 stands for the exception
H2(msg, hf) ==
    LET x == H1(msg, hf) IN IF x = -1 THEN -1 ELSE map_to_curve(x)

(***************************************************************************)
(* Python lists                                                            *)
(***************************************************************************)
\* the position (from 1) of l[i] in a list of length n, negative indices
\* counting from the end; 0 stands for IndexError
Idx(i, n) ==
    IF 0 <= i /\ i < n THEN i + 1
    ELSE IF 0 - n <= i /\ i < 0 THEN n + i + 1
    ELSE 0

\* list(range(a, b))
Range(a, b) == [j \in 1 .. (IF b > a THEN b - a ELSE 0) |-> a + j - 1]

\* [0] * n
Zeros(n) == [j \in 1 .. n |-> 0]

(***************************************************************************)
(* Inputs                                                                  *)
(***************************************************************************)
\* messages, as the bytes of the str
Messages == {<<97>>, <<98>>}

\* public keys are generator * x for x = randrange(order): never INFINITY
PublicKeys == {map_to_curve(x) : x \in RandRange}

\* key rings of every length up to MaxRing, the empty ring included
Rings == UNION {[1 .. n -> PublicKeys] : n \in 0 .. MaxRing}

\* signing keys: every residue, and every residue once more above the order
SigningKeys == 0 .. (2 * Order - 1)

\* key_idx: every valid index, and the invalid ones next to them
KeyIdxs(n) == (0 - n - 1) .. (n + 1)

NoTamper == [kind |-> "none", idx |-> 0, val |-> 0, msg |-> <<>>]
NoPrev == [set |-> FALSE, key |-> 0, Y |-> 0, M |-> <<>>]
NoEnc == [in |-> <<>>, out |-> <<>>, flat |-> <<>>, h |-> 0, hflat |-> 0]

\* history of a call to ring_signature, kept for the properties (vin keeps
\* the bytes hashed by verify_ring_signature): the loop indices
\* visited, how often each c[i] was written, the s[i] assigned in order,
\* which step wrote it last (-1 none, -2 STEP 2, i the loop's turn i),
\* whether some c[i] was read before any write to it, and the bytes hashed
\* into each c[i]
NoTrace(n) ==
    [visited |-> <<>>, cw |-> Zeros(n), by |-> [j \in 1 .. n |-> -1],
     sw |-> <<>>, unset |-> FALSE, cin |-> [j \in 1 .. n |-> <<>>]]

(***************************************************************************)
(* ring_signature(siging_key, key_idx, M, y, G, hash_func)                 *)
(***************************************************************************)
\* the loop of STEP 3 runs over
\* [i for i in range(key_idx + 1, n)] + [i for i in range(key_idx)]
LoopOrderSwapped(k, n) == Range(0, k) \o Range(k + 1, n)

LoopOrder(k, n) == Range(k + 1, n) \o Range(0, k)

\* the list hashed into a challenge: [y, Y, M, z_1, z_2]
Challenge(ring, tag, message, z_1, z_2) ==
    <<ListV(KeyRing(ring)), PointV(tag), StrV(message), PointV(z_1),
      PointV(z_2)>>

\* z_1 = (G * s[i]) + (y[i] * c[i])
Z1(si, yi, ci) == PointAdd(PointMul(generator, si), PointMul(yi, ci))

\* z_2 = (H * s[i]) + (Y * c[i])
Z2(h, tag, si, ci) == PointAdd(PointMul(h, si), PointMul(tag, ci))

\* LinkTag with the tag bound to the message as well
LinkTagMessage(h, x) == PointMul(h, x + M[1])

\* LinkTag with the key squared
LinkTagSquare(h, x) == PointMul(h, x * x)

\* Y = H * siging_key
LinkTag(h, x) == PointMul(h, x)

\* CloseRing with the wrong sign
CloseRingPlus(nonce, x, ck) == (nonce + x * ck) % Order

\* CloseRing without the reduction modulo the order
CloseRingRaw(nonce, x, ck) == nonce - x * ck

\* s[key_idx] = (u - siging_key * c[key_idx]) % SECP256k1.order
CloseRing(nonce, x, ck) == (nonce - x * ck) % Order

\* the call: n = len(y); c = [0] * n; s = [0] * n
Enter(ring, k, x, m) ==
    /\ y' = ring
    /\ key_idx' = k
    /\ siging_key' = x
    /\ M' = m
    /\ c' = Zeros(Len(ring))
    /\ s' = Zeros(Len(ring))
    /\ H' = 0
    /\ Y' = 0
    /\ u' = 0
    /\ todo' = <<>>
    /\ trace' = NoTrace(Len(ring))
    /\ pc' = "step1"

\* a call with a key ring of n >= 1 keys and 0 <= key_idx < n; the signing
\* key need not be the one of y[key_idx]
Call ==
    /\ pc = "idle"
    /\ \E ring \in Rings \ {<<>>} :
         \E k \in 0 .. (Len(ring) - 1), x \in SigningKeys, m \in Messages :
            Enter(ring, k, x, m)
    /\ UNCHANGED <<hash_func, tamper, result, vin, prev, enc>>

\* a call by a valid signer: generator * siging_key == y[key_idx]
CallValid ==
    /\ pc = "idle"
    /\ \E ring \in Rings \ {<<>>} :
         \E k \in 0 .. (Len(ring) - 1), m \in Messages :
            \E x \in {v \in SigningKeys : PointMul(generator, v) = ring[k + 1]} :
               Enter(ring, k, x, m)
    /\ UNCHANGED <<hash_func, tamper, result, vin, prev, enc>>

\* a call with any key ring and any key_idx, the malformed ones included
CallAny ==
    /\ pc = "idle"
    /\ \E ring \in Rings :
         \E k \in KeyIdxs(Len(ring)), x \in SigningKeys, m \in Messages :
            Enter(ring, k, x, m)
    /\ UNCHANGED <<hash_func, tamper, result, vin, prev, enc>>

\* a second call with the key ring of the first, which has returned; the
\* first call's signing key and tag are remembered
Again ==
    /\ pc = "signed"
    /\ ~prev.set
    /\ prev' = [set |-> TRUE, key |-> siging_key, Y |-> Y, M |-> M]
    /\ \E k \in 0 .. (Len(y) - 1), x \in SigningKeys, m \in Messages :
         Enter(y, k, x, m)
    /\ UNCHANGED <<hash_func, tamper, result, vin, enc>>

\* STEP 1: H = H2(y); Y = H * siging_key
Step1 ==
    /\ pc = "step1"
    /\ LET h == H2(KeyRing(y), hash_func) IN
         IF h = -1
         THEN /\ pc' = "error"
              /\ UNCHANGED <<H, Y>>
         ELSE /\ H' = h
              /\ Y' = LinkTag(h, siging_key)
              /\ pc' = "step2"
    /\ UNCHANGED <<hash_func, M, y, key_idx, siging_key, u, c, s, todo, trace,
                   tamper, result, vin, prev, enc>>

\* STEP 2: u = randrange(order); c[(key_idx + 1) % n] = H1([y, Y, M, G*u, H*u])
Step2 ==
    /\ pc = "step2"
    /\ \E r \in RandRange :
         LET n == Len(y)
             j == ((key_idx + 1) % n) + 1
             msg == Challenge(y, Y, M, PointMul(generator, r), PointMul(H, r))
         IN /\ u' = r
            /\ IF H1(msg, hash_func) = -1
               THEN /\ pc' = "error"
                    /\ UNCHANGED <<c, todo, trace>>
               ELSE /\ c' = [c EXCEPT ![j] = H1(msg, hash_func)]
                    /\ trace' = [trace EXCEPT !.cw[j] = @ + 1, !.by[j] = -2,
                                              !.cin[j] = concat(msg)]
                    /\ todo' = LoopOrder(key_idx, n)
                    /\ pc' = IF LoopOrder(key_idx, n) = <<>> THEN "step4"
                             ELSE "step3"
    /\ UNCHANGED <<hash_func, M, y, key_idx, siging_key, H, Y, s, tamper,
                   result, vin, prev, enc>>

\* STEP 3, one turn of the loop: s[i] = randrange(order); z_1; z_2;
\* c[(i + 1) % n] = H1([y, Y, M, z_1, z_2])
Step3 ==
    /\ pc = "step3"
    /\ \E r \in RandRange :
         LET n == Len(y)
             i == Head(todo)
             p == Idx(i, n)
             j == ((i + 1) % n) + 1
         IN IF p = 0
            THEN /\ pc' = "error"
                 /\ UNCHANGED <<c, s, todo, trace>>
            ELSE LET msg == Challenge(y, Y, M, Z1(r, y[p], c[p]), Z2(H, Y, r, c[p]))
                 IN /\ s' = [s EXCEPT ![p] = r]
                    /\ IF H1(msg, hash_func) = -1
                       THEN /\ pc' = "error"
                            /\ trace' = [trace EXCEPT
                                           !.visited = Append(@, i),
                                           !.sw = Append(@, p - 1),
                                           !.unset = @ \/ trace.cw[p] = 0]
                            /\ UNCHANGED <<c, todo>>
                       ELSE /\ c' = [c EXCEPT ![j] = H1(msg, hash_func)]
                            /\ trace' = [trace EXCEPT
                                           !.visited = Append(@, i),
                                           !.sw = Append(@, p - 1),
                                           !.unset = @ \/ trace.cw[p] = 0,
                                           !.cw[j] = @ + 1,
                                           !.by[j] = i,
                                           !.cin[j] = concat(msg)]
                            /\ todo' = Tail(todo)
                            /\ pc' = IF Tail(todo) = <<>> THEN "step4"
                                     ELSE "step3"
    /\ UNCHANGED <<hash_func, M, y, key_idx, siging_key, H, Y, u, tamper,
                   result, vin, prev, enc>>

\* STEP 4: s[key_idx] = (u - siging_key * c[key_idx]) % order;
\* return (c[0], s, Y)
Step4 ==
    /\ pc = "step4"
    /\ LET p == Idx(key_idx, Len(y)) IN
         IF p = 0
         THEN /\ pc' = "error"
              /\ UNCHANGED <<s, trace>>
         ELSE /\ s' = [s EXCEPT ![p] = CloseRing(u, siging_key, c[p])]
              /\ trace' = [trace EXCEPT !.sw = Append(@, p - 1),
                                        !.unset = @ \/ trace.cw[p] = 0]
              /\ pc' = "signed"
    /\ UNCHANGED <<hash_func, M, y, key_idx, siging_key, H, Y, u, c, todo,
                   tamper, result, vin, prev, enc>>

(***************************************************************************)
(* verify_ring_signature(message, y, c_0, s, Y, G, hash_func)              *)
(***************************************************************************)
\* the loop from turn i on, c[i] being ci; s[i] raises IndexError when s is
\* too short.  The result is the value returned ("error" for an exception)
\* with the bytes hashed into the challenges
RECURSIVE verify_loop(_, _, _, _, _, _, _, _, _, _)
verify_loop(message, ring, c_0, sig_s, tag, hf, h, i, ci, hashed) ==
    IF i >= Len(sig_s) THEN [value |-> "error", hashed |-> hashed]
    ELSE LET z_1 == Z1(sig_s[i + 1], ring[i + 1], ci)
             z_2 == Z2(h, tag, sig_s[i + 1], ci)
             bytes == concat(Challenge(ring, tag, message, z_1, z_2))
             d == IF bytes = Error THEN -1 ELSE Digest(hf, bytes)
         IN IF d = -1 THEN [value |-> "error", hashed |-> hashed]
            ELSE IF i < Len(ring) - 1
            THEN verify_loop(message, ring, c_0, sig_s, tag, hf, h, i + 1, d,
                             Append(hashed, bytes))
            ELSE [value |-> IF c_0 = d THEN "true" ELSE "false",
                  hashed |-> Append(hashed, bytes)]

verify_ring_signature(message, ring, c_0, sig_s, tag, hf) ==
    LET h == H2(KeyRing(ring), hf) IN
      IF h = -1 THEN [value |-> "error", hashed |-> <<>>]
      \* for i in range(n) with n = 0: return False
      ELSE IF Len(ring) = 0 THEN [value |-> "false", hashed |-> <<>>]
      ELSE verify_loop(message, ring, c_0, sig_s, tag, hf, h, 0, c_0, <<>>)

\* the arguments verify_ring_signature is called with: the signature that
\* ring_signature returned for (M, y), with what the tamper record replaces
Args(t) ==
    [message |-> IF t.kind = "message" THEN t.msg ELSE M,
     y |-> IF t.kind = "key" THEN [y EXCEPT ![t.idx] = t.val] ELSE y,
     c_0 |-> IF t.kind = "c0" THEN t.val ELSE c[1],
     s |-> CASE t.kind = "s" -> [s EXCEPT ![t.idx] = t.val]
             [] t.kind = "short" -> SubSeq(s, 1, Len(s) - 1)
             [] t.kind = "long" -> Append(s, t.val)
             [] OTHER -> s,
     Y |-> IF t.kind = "Y" THEN t.val ELSE Y]

\* the call was made by a valid signer: 0 <= key_idx < n and
\* generator * siging_key == y[key_idx]
ValidSigner ==
    /\ 0 <= key_idx
    /\ key_idx < Len(y)
    /\ PointMul(generator, siging_key) = y[key_idx + 1]

\* a tamper record that changes the part it names
Changes(t) ==
    CASE t.kind = "key" -> t.val # y[t.idx]
      [] t.kind = "s" -> t.val # s[t.idx]
      [] t.kind = "c0" -> t.val # c[1]
      [] t.kind = "Y" -> t.val # Y
      [] OTHER -> TRUE

\* the ways to replace exactly one part of the signature, or of the message
\* and key ring it was made for, by another value
Replacements ==
    {t \in
       {[NoTamper EXCEPT !.kind = "message", !.msg = m] : m \in Messages \ {M}}
       \cup {[NoTamper EXCEPT !.kind = "key", !.idx = i, !.val = P] :
               i \in 1 .. Len(y), P \in Points}
       \cup {[NoTamper EXCEPT !.kind = "s", !.idx = i, !.val = v] :
               i \in 1 .. Len(s), v \in SigningKeys}
       \cup {[NoTamper EXCEPT !.kind = "c0", !.val = v] : v \in 0 .. (HashRange - 1)}
       \cup {[NoTamper EXCEPT !.kind = "Y", !.val = P] : P \in Points} :
     Changes(t)}

\* the signature as returned, and with s made shorter or longer
Lengths ==
    {NoTamper, [NoTamper EXCEPT !.kind = "short"]}
    \cup {[NoTamper EXCEPT !.kind = "long", !.val = v] : v \in RandRange}

\* verify_ring_signature called with the arguments that t gives
VerifyWith(t) ==
    /\ tamper' = t
    /\ \E a \in {Args(t)} :
         \E r \in {verify_ring_signature(a.message, a.y, a.c_0, a.s, a.Y,
                                          hash_func)} :
            /\ result' = r.value
            /\ vin' = r.hashed
    /\ pc' = "verified"
    /\ UNCHANGED <<hash_func, M, y, key_idx, siging_key, H, Y, u, c, s, todo,
                   trace, prev, enc>>

\* the signature is verified as returned, or with s of another length
Verify == pc = "signed" /\ \E t \in Lengths : VerifyWith(t)

\* the signature is verified with one part replaced
VerifyTampered == pc = "signed" /\ \E t \in Replacements : VerifyWith(t)

(***************************************************************************)
(* The encoder on its own                                                  *)
(***************************************************************************)
\* the list with every nested list replaced by its elements
RECURSIVE Flatten(_)
Flatten(params) ==
    IF Len(params) = 0 THEN <<>>
    ELSE (IF Head(params)[1] = "list" THEN Flatten(Head(params)[2])
          ELSE <<Head(params)>>) \o Flatten(Tail(params))

\* an int, a str and a Point
Atoms == {IntV(97), StrV(<<97>>), PointV(generator)}

\* the lists of at most MaxList atoms
Inner == UNION {[1 .. n -> Atoms] : n \in 0 .. MaxList}

\* the lists of at most MaxList elements, each an atom or a list of atoms
EncInputs ==
    UNION {[1 .. n -> Atoms \cup {ListV(l) : l \in Inner}] : n \in 0 .. MaxList}

\* concat(params) and H1(params) for a list and for its flattening
EncodeCall ==
    /\ pc = "encode"
    /\ enc' = [enc EXCEPT !.out = concat(enc.in),
                          !.flat = concat(Flatten(enc.in)),
                          !.h = H1(enc.in, hash_func),
                          !.hflat = H1(Flatten(enc.in), hash_func)]
    /\ pc' = "encoded"
    /\ UNCHANGED <<hash_func, M, y, key_idx, siging_key, H, Y, u, c, s, todo,
                   trace, tamper, result, vin, prev>>

(***************************************************************************)
(* Specifications                                                          *)
(***************************************************************************)
\* no call made yet; hash_func is any function of the family
Idle ==
    /\ hash_func \in 0 .. MaxHashFunc
    /\ M = <<>>
    /\ y = <<>>
    /\ key_idx = 0
    /\ siging_key = 0
    /\ H = 0
    /\ Y = 0
    /\ u = 0
    /\ c = <<>>
    /\ s = <<>>
    /\ todo = <<>>
    /\ trace = NoTrace(0)
    /\ tamper = NoTamper
    /\ result = "none"
    /\ vin = <<>>
    /\ prev = NoPrev

Init ==
    /\ Idle
    /\ pc = "idle"
    /\ enc = NoEnc

\* one well-formed call to ring_signature, then one to verify_ring_signature
Next == Call \/ Step1 \/ Step2 \/ Step3 \/ Step4 \/ Verify

Spec == Init /\ [][Next]_vars

\* one call to ring_signature by a valid signer, then one call to
\* verify_ring_signature with one part replaced
NextTamper == CallValid \/ Step1 \/ Step2 \/ Step3 \/ Step4 \/ VerifyTampered

SpecTamper == Init /\ [][NextTamper]_vars

\* one call to ring_signature with any key ring and key_idx
NextInputs == CallAny \/ Step1 \/ Step2 \/ Step3 \/ Step4

SpecInputs == Init /\ [][NextInputs]_vars

\* two calls to ring_signature with the same key ring
NextLink == Call \/ Step1 \/ Step2 \/ Step3 \/ Step4 \/ Again

SpecLink == Init /\ [][NextLink]_vars

\* one call to concat and H1
InitEnc ==
    /\ Idle
    /\ pc = "encode"
    /\ enc \in {[NoEnc EXCEPT !.in = l] : l \in EncInputs}

SpecEnc == InitEnc /\ [][EncodeCall]_vars

(***************************************************************************)
(* Properties                                                              *)
(***************************************************************************)
Signed == pc \in {"signed", "verified"}

ValidIdx == 0 <= key_idx /\ key_idx < Len(y)

\* H1 is collision-free on everything hashed by the two calls: the key
\* rings (by H2) and the challenges of the signer and of the verifier
CollisionFree ==
    LET hashed == ({concat(KeyRing(y)), concat(KeyRing(Args(tamper).y))}
                   \cup {trace.cin[j] : j \in 1 .. Len(y)}
                   \cup {vin[j] : j \in 1 .. Len(vin)}) \ {Error}
    IN \A p, q \in hashed :
         Digest(hash_func, p) = Digest(hash_func, q) => p = q

\* C1: the signature that ring_signature returns to the holder of the
\* signing key of y[key_idx], whatever the ring, the index, the message, the
\* nonce u and the random s[i], verifies for the same message and key ring
RoundTrip ==
    (pc = "verified" /\ ValidSigner /\ tamper.kind = "none") => result = "true"

RoundTripWitness ==
    /\ pc = "verified"
    /\ ValidSigner
    /\ tamper.kind = "none"
    /\ result = "true"
    /\ Len(y) = 3
    /\ key_idx = 1
    /\ siging_key >= Order

\* C2: the second of two calls with the same signing key and the same key
\* ring returns the tag Y of the first, whatever the messages and the random
\* values of the two calls
SameTag ==
    (pc = "signed" /\ prev.set /\ prev.key = siging_key) => Y = prev.Y

SameTagWitness ==
    /\ pc = "signed"
    /\ prev.set
    /\ prev.key = siging_key
    /\ prev.M # M
    /\ Y = prev.Y
    /\ Y # INFINITY

\* C3: with H1 collision-free, replacing the message, one key of the ring,
\* one s[i], c_0 or Y of a valid signer's signature by another value makes
\* verification return false
TamperRejected ==
    (/\ pc = "verified"
     /\ ValidSigner
     /\ tamper.kind \in {"message", "key", "s", "c0", "Y"}
     /\ CollisionFree)
    => result = "false"

\* C4: a call with a valid key_idx and a signing key that is not the one of
\* y[key_idx] returns a signature with len(s) = n, which does not verify
WrongKeyRejected ==
    (ValidIdx /\ ~ValidSigner) =>
       /\ pc # "error"
       /\ (Signed => Len(s) = Len(y))
       /\ (pc = "verified" /\ tamper.kind = "none" => result = "false")

\* C5: verify_ring_signature called with len(s) # len(y) ends with an
\* exception, never with True or False
LengthChecked ==
    (pc = "verified" /\ Len(Args(tamper).s) # Len(y)) => result = "error"

\* C6: ring_signature called with an empty key ring, or with key_idx
\* outside 0 .. n-1, ends with an exception and returns no signature
InputsChecked ==
    (pc # "idle" /\ ~ValidIdx) => pc # "signed"

\* C7: with 0 <= key_idx < n the loop visits key_idx+1, ..., n-1, 0, ...,
\* key_idx-1; no c[i] is read before it is written or written twice; c[i]
\* is written by STEP 2 for i = (key_idx + 1) % n and by the loop's turn
\* (i - 1) % n otherwise; on return every s[i] has been assigned once,
\* s[key_idx] last
ChainOrder ==
    LET n == Len(y) IN
      (pc # "idle" /\ ValidIdx) =>
         /\ ~trace.unset
         /\ \A j \in 1 .. n : trace.cw[j] <= 1
         /\ \A j \in 1 .. Len(trace.visited) :
              trace.visited[j] = (key_idx + j) % n
         /\ Signed =>
              /\ trace.visited = [j \in 1 .. (n - 1) |-> (key_idx + j) % n]
              /\ \A j \in 1 .. n : trace.cw[j] = 1
              /\ \A j \in 0 .. (n - 1) :
                   trace.by[j + 1] =
                      IF j = (key_idx + 1) % n THEN -2 ELSE (j - 1) % n
              /\ Len(trace.sw) = n
              /\ \A i \in 0 .. (n - 1) : \E j \in 1 .. n : trace.sw[j] = i
              /\ trace.sw[n] = key_idx

ChainOrderWitness ==
    /\ pc = "signed"
    /\ Len(y) = 3
    /\ key_idx = 1
    /\ trace.visited = <<2, 0>>
    /\ trace.sw = <<2, 0, 1>>

\* C8 as stated: c_0 and every s[i] of a signature lie in 0 .. order-1
ScalarRange ==
    (Signed /\ ValidSigner) =>
       /\ c[1] \in 0 .. (Order - 1)
       /\ \A i \in 1 .. Len(s) : s[i] \in 0 .. (Order - 1)

\* C8 as amended: every s[i] lies in 0 .. order-1; c_0 is a digest, which is
\* not reduced modulo the order
ScalarRangeAmended ==
    (Signed /\ ValidSigner) =>
       /\ c[1] \in 0 .. (HashRange - 1)
       /\ \A i \in 1 .. Len(s) : s[i] \in 0 .. (Order - 1)

ScalarRangeWitness ==
    /\ pc = "signed"
    /\ ValidSigner
    /\ c[1] >= Order
    /\ Len(y) = 3

\* C9: whenever concat accepts a list, it returns the bytes it returns for
\* the flattened list, and H1 gives both the same digest
NoFraming ==
    (pc = "encoded" /\ enc.out # Error) =>
       /\ enc.out = enc.flat
       /\ enc.h = enc.hflat

NoFramingWitness ==
    /\ pc = "encoded"
    /\ enc.out # Error
    /\ enc.in # Flatten(enc.in)
    /\ Len(enc.in) = 2
    /\ enc.out = enc.flat
    /\ enc.h = enc.hflat

\* C10: over one key ring whose point H is not the point at infinity, two
\* calls return the same tag Y exactly when their signing keys are congruent
\* modulo the order
TagSound ==
    (pc = "signed" /\ prev.set /\ H # INFINITY) =>
       (Y = prev.Y <=> prev.key % Order = siging_key % Order)

TagSoundWitness ==
    /\ pc = "signed"
    /\ prev.set
    /\ H # INFINITY
    /\ prev.key % Order # siging_key % Order
    /\ Y # prev.Y

====
